---- MODULE Spec2Model ----
(***************************************************************************)
(* Audiobook recommendation system: the hybrid scoring core.               *)
(*                                                                         *)
(* The repository holds three implementations of the hybrid recommender:   *)
(*   src/src/recommendation_engine.py  (objects named src... below)        *)
(*   src/ml/recommendation_engine.py   (ml...)                             *)
(*   src/recommender/hybrid_recommender.py (rec...)                        *)
(*                                                                         *)
(* Numbers are fixed point.  Weights are integers in units of 1e-6,        *)
(* ratings are whole stars, similarities and predicted ratings are in      *)
(* hundredths, interaction-matrix cells of the ml package are in tenths.   *)
(***************************************************************************)
EXTENDS Integers, Sequences, FiniteSets, TLC

VARIABLES
    srcRec,        \* src/src HybridRecommender object (its fields)
    mlRec,         \* ml HybridRecommender object and the data its engines loaded
    recRec,        \* recommender HybridRecommender object
    ctor,          \* the last constructor call and its outcome
    call,          \* the last request: implementation, operation, arguments
    ret,           \* what the last request returned, or that it raised
    collab_recs,   \* local of generate_recommendations: collaborative engine output
    content_recs,  \* local of generate_recommendations: content engine output
    assigns,       \* number of property assignments made so far
    engine_calls,  \* the queries the last src/src request made to its two engines
    history,       \* the answers to the last request, when it was made more than once
    disk,          \* data/raw/user_interactions.csv and the files made of it in data/processed
    built_once     \* user_ratings and books of the src/src object have held tables at one time

vars == <<srcRec, mlRec, recRec, ctor, call, ret, collab_recs, content_recs, assigns,
          engine_calls, history, disk, built_once>>

(***************************************************************************)
(* Bounds of the model.                                                    *)
(***************************************************************************)
MaxTopN == 2          \* largest n_recommendations / top_n requested
MaxRatingRows == 3    \* most rows in a ratings table
MaxAssign == 2        \* most property assignments in one run
MaxLifeAssign == 3        \* most property assignments in a run that follows the fitted models
MaxRawRows == 3           \* most rows in data/raw/user_interactions.csv when it is preprocessed
MaxInteractionRows == 2   \* most rows in an interaction table

(***************************************************************************)
(* Units.                                                                  *)
(***************************************************************************)
WScale == 1000 * 1000     \* a weight of 1.0
SScale == 10 * 10         \* a similarity of 1.0; a rating of one star

None == <<>>
Some(x) == <<x>>
Val(opt) == opt[1]

Min(a, b) == IF a < b THEN a ELSE b
Max(a, b) == IF a > b THEN a ELSE b
Abs(a) == IF a < 0 THEN -a ELSE a

RECURSIVE SumSeq(_)
SumSeq(s) == IF s = <<>> THEN 0 ELSE Head(s) + SumSeq(Tail(s))

Take(s, n) == SubSeq(s, 1, Min(n, Len(s)))

Range(s) == {s[i] : i \in 1..Len(s)}

\* all orders in which the elements of a finite set can be enumerated
Perms(S) ==
    {p \in [1..Cardinality(S) -> S] :
        \A i, j \in 1..Cardinality(S) : i /= j => p[i] /= p[j]}

\* the elements of a set of integers in ascending order
RECURSIVE SortedSeq(_)
SortedSeq(S) ==
    IF S = {} THEN <<>>
    ELSE LET m == CHOOSE x \in S : \A y \in S : x <= y
         IN <<m>> \o SortedSeq(S \ {m})

RECURSIVE IsqrtIn(_, _, _)
IsqrtIn(n, lo, hi) ==
    IF hi - lo <= 1 THEN lo
    ELSE LET mid == (lo + hi) \div 2
         IN IF mid * mid <= n THEN IsqrtIn(n, mid, hi) ELSE IsqrtIn(n, lo, mid)

\* floor of the square root
Isqrt(n) == IsqrtIn(n, 0, 46341)

Dot(a, b) == SumSeq([i \in 1..Len(a) |-> a[i] * b[i]])

(***************************************************************************)
(* sklearn cosine_similarity of two rows, in hundredths.  A zero row has   *)
(* similarity 0 with every row, itself included.  The denominator          *)
(* sqrt(|a|^2 |b|^2) is taken with as many fractional digits as fit, so    *)
(* that parallel rows have similarity exactly SScale.                      *)
(***************************************************************************)
cosine_similarity(a, b) ==
    LET na == Dot(a, a)
        nb == Dot(b, b)
    IN IF na = 0 \/ nb = 0 THEN 0
       ELSE LET k == Isqrt(2147483647 \div (na * nb))
            IN (SScale * k * Dot(a, b)) \div Isqrt(na * nb * k * k)

\* sklearn cosine_similarity of a matrix: all rows against all rows
SimilarityMatrix(m) ==
    [i \in 1..Len(m) |-> [j \in 1..Len(m) |-> cosine_similarity(m[i], m[j])]]

\* position of x in a sequence without repetition (1-based)
IndexOf(s, x) == CHOOSE i \in 1..Len(s) : s[i] = x

(***************************************************************************)
(* list.sort(key=score, reverse=True): stable, descending.                 *)
(***************************************************************************)
RECURSIVE InsertDesc(_, _)
InsertDesc(x, s) ==
    IF s = <<>> THEN <<x>>
    ELSE IF Head(s).score >= x.score THEN <<Head(s)>> \o InsertDesc(x, Tail(s))
    ELSE <<x>> \o s

RECURSIVE InsertAsc(_, _)
InsertAsc(x, s) ==
    IF s = <<>> THEN <<x>>
    ELSE IF Head(s).score <= x.score THEN <<Head(s)>> \o InsertAsc(x, Tail(s))
    ELSE <<x>> \o s

RECURSIVE SortAscending(_)
SortAscending(s) ==
    IF s = <<>> THEN <<>>
    ELSE InsertAsc(s[Len(s)], SortAscending(SubSeq(s, 1, Len(s) - 1)))

RECURSIVE SortByScoreDesc(_)
SortByScoreDesc(s) ==
    IF s = <<>> THEN <<>>
    ELSE InsertDesc(s[Len(s)], SortByScoreDesc(SubSeq(s, 1, Len(s) - 1)))

(***************************************************************************)
(* np.argsort(values)[::-1]: the indices in descending order of value.     *)
(* argsort's default sort is not stable, so equal values may come in any   *)
(* order: the set of all index orders it may produce.                      *)
(***************************************************************************)
ArgsortReversed(values) ==
    {p \in Perms(1..Len(values)) :
        \A i \in 1..(Len(values) - 1) : values[p[i]] >= values[p[i + 1]]}

\* dict(list_of_pairs).get(key, 0): the last pair with that key wins
RECURSIVE DictGet(_, _)
DictGet(pairs, key) ==
    IF pairs = <<>> THEN 0
    ELSE IF pairs[Len(pairs)].book_id = key THEN pairs[Len(pairs)].score
    ELSE DictGet(SubSeq(pairs, 1, Len(pairs) - 1), key)

Keys(pairs) == {pairs[i].book_id : i \in 1..Len(pairs)}

NoCall == [impl |-> "", op |-> "", id |-> 0, n |-> 0]
NoRet == [raised |-> FALSE, out |-> <<>>]
NoCtor == [impl |-> "", cw |-> 0, ctw |-> 0, raised |-> FALSE]

(***************************************************************************)
(* Input data of the src/src and recommender packages.                     *)
(***************************************************************************)
Users == {1, 2}
\* the users requests are made for: the known ones and one that is in no table
ReqUsers == Users \cup {9}
Books == {1, 2, 3}
\* the books similar books are asked for: the known ones and one that is in no table
ReqBooks == Books \cup {7}

RatingRow(u, b, r) == [user_id |-> u, book_id |-> b, rating |-> r]

\* the rows ratings tables are made of, in a fixed order
RatingRowSeq ==
    << RatingRow(1, 1, 5), RatingRow(1, 1, 3), RatingRow(1, 2, 3),
       RatingRow(2, 1, 5), RatingRow(2, 2, 5), RatingRow(2, 3, 3) >>

\* a ratings table: between 1 and MaxRatingRows of the rows, in that order
RatingTables ==
    {[i \in 1..Len(ix) |-> RatingRowSeq[ix[i]]] :
        ix \in {SortedSeq(S) : S \in {T \in SUBSET (1..Len(RatingRowSeq)) :
                                        T /= {} /\ Cardinality(T) <= MaxRatingRows}}}

\* the TF-IDF row of a book's text, as term weights over a two-term vocabulary
FeatureSchemes ==
    { [b \in Books |-> IF b = 3 THEN <<0, 1>> ELSE <<1, 0>>],
      [b \in Books |-> IF b = 1 THEN <<2, 0>> ELSE IF b = 2 THEN <<1, 1>> ELSE <<0, 1>>] }

\* the orders of the rows of a books table: any books by ascending id, and two more
BookOrders ==
    {SortedSeq(S) : S \in (SUBSET Books) \ {{}}} \cup {<<2, 1>>, <<3, 1, 2>>}

\* a books table: some of the books, each with its TF-IDF row
BookTables ==
    {[i \in 1..Len(p) |-> [book_id |-> p[i], features |-> f[p[i]]]] :
        p \in BookOrders, f \in FeatureSchemes}

(***************************************************************************)
(* Weights handed to the constructors, in units of 1e-6.                   *)
(***************************************************************************)
CollabWeights == {-100000, 600000, 700000}
ContentWeights == {400000, 400001, 400002, 500000, 1100000}

Tolerance == 1     \* 1e-6

(***************************************************************************)
(* src/src/models/collaborative_filtering.py: CollaborativeFilter          *)
(* A fitted model is the table it was fitted on; the pivot and the         *)
(* similarity matrix are functions of it.                                  *)
(***************************************************************************)
\* DataFrame.pivot raises ValueError when an (index, column) pair repeats
PivotRaises(t) ==
    \E i, j \in 1..Len(t) :
        i /= j /\ t[i].user_id = t[j].user_id /\ t[i].book_id = t[j].book_id

\* DataFrame.pivot(index='user_id', columns='book_id', values='rating').fillna(0):
\* the sorted labels and the cells
Pivot(t) ==
    LET index == SortedSeq({t[i].user_id : i \in 1..Len(t)})
        columns == SortedSeq({t[i].book_id : i \in 1..Len(t)})
        cell(u, b) ==
            IF \E i \in 1..Len(t) : t[i].user_id = u /\ t[i].book_id = b
            THEN (CHOOSE r \in Range(t) : r.user_id = u /\ r.book_id = b).rating
            ELSE 0
    IN [index |-> index, columns |-> columns,
        values |-> [i \in 1..Len(index) |->
                       [j \in 1..Len(columns) |-> cell(index[i], columns[j])]]]

\* CollaborativeFilter.fit: the fields of the fitted model
CollaborativeFilter_fit(user_ratings) ==
    LET p == Pivot(user_ratings)
    IN [user_ratings_matrix |-> p.values,
        user_similarity |-> SimilarityMatrix(p.values),
        users |-> p.index,
        books |-> p.columns]

\* a model that predicts before it is fitted
PredictsUnfitted(fitted, user_id, n_recommendations) ==
    <<[book_id |-> 1, score |-> SScale]>>

\* CollaborativeFilter.predict
CollaborativeFilter_predict(fitted, user_id, n_recommendations) ==
    IF fitted = None THEN <<>>
    ELSE LET cf == Val(fitted)
         IN IF user_id \notin Range(cf.users) THEN <<>>   \* KeyError, caught
            ELSE LET user_idx == IndexOf(cf.users, user_id)
                     user_ratings == cf.user_ratings_matrix[user_idx]
                     similar_users == cf.user_similarity[user_idx]
                     unrated_books ==
                         SelectSeq([j \in 1..Len(cf.books) |-> j],
                                   LAMBDA j : user_ratings[j] = 0)
                     similarity_sum == SumSeq(similar_users)
                     weighted_sum(j) ==
                         SumSeq([i \in 1..Len(cf.users) |->
                                    cf.user_ratings_matrix[i][j] * similar_users[i]])
                     predictions ==
                         [k \in 1..Len(unrated_books) |->
                             [book_id |-> cf.books[unrated_books[k]],
                              score |-> IF similarity_sum > 0
                                        THEN (weighted_sum(unrated_books[k]) * SScale)
                                                 \div similarity_sum
                                        ELSE 0]]
                 IN Take(SortByScoreDesc(predictions), n_recommendations)

(***************************************************************************)
(* src/src/models/content_based.py: ContentBasedRecommender                *)
(***************************************************************************)
\* an engine that answers with the first books of its table whatever it is asked
FirstBooksOfTable(fitted, book_id, n_recommendations) ==
    IF fitted = None THEN {<<>>}
    ELSE {Take([i \in 1..Len(Val(fitted)) |->
                   [book_id |-> Val(fitted)[i].book_id, score |-> 0]],
               n_recommendations)}

\* ContentBasedRecommender.get_similar_books: every list it may return
ContentBased_get_similar_books(fitted, book_id, n_recommendations) ==
    IF fitted = None THEN {<<>>}
    ELSE LET df == Val(fitted)
             hits == {i \in 1..Len(df) : df[i].book_id = book_id}
         IN IF hits = {} THEN {<<>>}                       \* IndexError, caught
            ELSE LET book_idx == CHOOSE i \in hits : \A j \in hits : i <= j
                     similarity_scores ==
                         [i \in 1..Len(df) |->
                             cosine_similarity(df[book_idx].features, df[i].features)]
                 IN { LET similar_indices ==
                              SubSeq(order, 2, Min(n_recommendations + 1, Len(order)))
                      IN [k \in 1..Len(similar_indices) |->
                             [book_id |-> df[similar_indices[k]].book_id,
                              score |-> similarity_scores[similar_indices[k]]]]
                      : order \in ArgsortReversed(similarity_scores) }

(***************************************************************************)
(* src/src/recommendation_engine.py: HybridRecommender                     *)
(***************************************************************************)
\* a sum check alone, without the range check
SumOnlyValid(cw, ctw) == Abs(cw + ctw - WScale) <= Tolerance

\* the two checks of __init__ : each weight in [0, 1], the sum within 1e-6 of 1.
\* The weights handed in are multiples of 1e-6; for the pair whose sum is off by
\* exactly 1e-6 (0.6 + 0.400001) the float comparison  abs(..) > 1e-6  is False.
SrcWeightsValid(cw, ctw) ==
    /\ 0 <= cw /\ cw <= WScale /\ 0 <= ctw /\ ctw <= WScale
    /\ Abs(cw + ctw - WScale) <= Tolerance

SrcNew ==
    [exists |-> FALSE, collaborative_weight |-> 0, content_weight |-> 0,
     user_ratings |-> None, books |-> None, cf |-> None, cb |-> None]

\* HybridRecommender.__init__
SrcConstruct(cw, ctw) ==
    /\ ~srcRec.exists
    /\ ctor.impl = ""
    /\ ctor' = [impl |-> "src", cw |-> cw, ctw |-> ctw, raised |-> ~SrcWeightsValid(cw, ctw)]
    /\ srcRec' = IF SrcWeightsValid(cw, ctw)
                 THEN [SrcNew EXCEPT !.exists = TRUE,
                                     !.collaborative_weight = cw,
                                     !.content_weight = ctw]
                 ELSE srcRec
    /\ UNCHANGED <<mlRec, recRec, call, ret, collab_recs, content_recs, assigns, engine_calls, history, disk, built_once>>

\* HybridRecommender._fit_models: the object afterwards, and whether it raised
SrcFitModels(o) ==
    IF o.user_ratings /= None /\ PivotRaises(Val(o.user_ratings))
    THEN [raised |-> TRUE, obj |-> o]
    ELSE [raised |-> FALSE,
          obj |-> [o EXCEPT !.cf = IF o.user_ratings /= None
                                   THEN Some(CollaborativeFilter_fit(Val(o.user_ratings)))
                                   ELSE @,
                            !.cb = IF o.books /= None THEN o.books ELSE @]]

\* the user_ratings property setter
SrcSetUserRatings(df) ==
    /\ srcRec.exists
    /\ call = NoCall
    /\ assigns' = assigns + 1
    /\ LET o == [srcRec EXCEPT !.user_ratings = df]
           fit == IF df /= None /\ o.books /= None
                  THEN SrcFitModels(o) ELSE [raised |-> FALSE, obj |-> o]
       IN /\ srcRec' = fit.obj
          /\ ret' = [raised |-> fit.raised, out |-> <<>>]
          /\ built_once' = (built_once \/ (o.user_ratings /= None /\ o.books /= None))
    /\ call' = [impl |-> "src", op |-> "set_user_ratings", id |-> 0, n |-> 0]
    /\ collab_recs' = <<>>
    /\ content_recs' = <<>>
    /\ UNCHANGED <<mlRec, recRec, ctor, engine_calls, history, disk>>

\* the books property setter
SrcSetBooks(df) ==
    /\ srcRec.exists
    /\ call = NoCall
    /\ assigns' = assigns + 1
    /\ LET o == [srcRec EXCEPT !.books = df]
           fit == IF df /= None /\ o.user_ratings /= None
                  THEN SrcFitModels(o) ELSE [raised |-> FALSE, obj |-> o]
       IN /\ srcRec' = fit.obj
          /\ ret' = [raised |-> fit.raised, out |-> <<>>]
          /\ built_once' = (built_once \/ (o.user_ratings /= None /\ o.books /= None))
    /\ call' = [impl |-> "src", op |-> "set_books", id |-> 0, n |-> 0]
    /\ collab_recs' = <<>>
    /\ content_recs' = <<>>
    /\ UNCHANGED <<mlRec, recRec, ctor, engine_calls, history, disk>>

NoListenedBooks(o, user_id) == {}

\* HybridRecommender._get_user_listened_books
SrcListenedBooks(o, user_id) ==
    IF o.user_ratings = None THEN {}
    ELSE {r.book_id : r \in {x \in Range(Val(o.user_ratings)) : x.user_id = user_id}}

\* iteration over  set(collab_recs.keys()) | set(content_recs.keys()) : a set has
\* each element once, in an order the program does not control
ConcatBookIds(collab, content) ==
    {[i \in 1..(Len(collab) + Len(content)) |->
        IF i <= Len(collab) THEN collab[i].book_id ELSE content[i - Len(collab)].book_id]}

UniqueBookIds(collab, content) == Perms(Keys(collab) \cup Keys(content))

\* a score that adds the two engine scores without the weights
UnweightedScore(o, collab, content, book_id) ==
    WScale * (DictGet(collab, book_id) + DictGet(content, book_id))

\* the weighted score of one book
SrcWeightedScore(o, collab, content, book_id) ==
    o.collaborative_weight * DictGet(collab, book_id)
        + o.content_weight * DictGet(content, book_id)

\* the list generate_recommendations returns for one enumeration order
SrcHybridList(o, collab, content, ids, listened, n_recommendations) ==
    LET all_book_ids == SelectSeq(ids, LAMBDA b : b \notin listened)
        recommendations ==
            [i \in 1..Len(all_book_ids) |->
                [book_id |-> all_book_ids[i],
                 score |-> SrcWeightedScore(o, collab, content, all_book_ids[i])]]
    IN Take(SortByScoreDesc(recommendations), n_recommendations)

\* one query to an engine, as the engine sees it
\* a generate_recommendations request
Asked(impl, user_id, n) ==
    [impl |-> impl, op |-> "generate_recommendations", id |-> user_id, n |-> n]

\* the answer the request gets in this step, and the objects it was computed from
Answered ==
    [state |-> <<srcRec, mlRec>>,
     answer |-> <<ret', collab_recs', content_recs', engine_calls'>>]

\* no request is taken for one that was answered before
NeverAnsweredBefore == FALSE

\* generate_recommendations draws no random number and reads no clock or file:
\* where the order of a result is left to np.argsort, to the iteration of a set
\* or to sort_values, the build resolves it by a rule, whichever it is.  So the
\* request that was just answered, made again on the same objects, is computed
\* the same way.
AnsweredBefore ==
    /\ history /= <<>>
    /\ history[Len(history)].state = <<srcRec, mlRec>>

\* what the request made again is answered
SameAnswer ==
    LET before == history[Len(history)].answer
    IN /\ ret' = before[1]
       /\ collab_recs' = before[2]
       /\ content_recs' = before[3]
       /\ engine_calls' = before[4]

\* the answers to the request of this step, the one before it and this one
Remember ==
    history' = (IF history = <<>> THEN <<>> ELSE <<history[Len(history)]>>) \o <<Answered>>

EngineCall(method, id, n) == [method |-> method, id |-> id, n |-> n]

\* user_books.iloc[0]['book_id'] after sort_values('rating', ascending=False):
\* the books it may be, none when the user has no row or there is no table
SrcTopRatedBooks(o, user_id) ==
    IF o.user_ratings = None THEN {}
    ELSE LET user_books == {x \in Range(Val(o.user_ratings)) : x.user_id = user_id}
         IN {x.book_id : x \in {y \in user_books :
                                    \A z \in user_books : z.rating <= y.rating}}

\* HybridRecommender.generate_recommendations
SrcGenerate(user_id, n_recommendations) ==
    /\ srcRec.exists
    /\ call \in {NoCall, Asked("src", user_id, n_recommendations)}
    /\ IF AnsweredBefore THEN SameAnswer ELSE
       LET collab == CollaborativeFilter_predict(srcRec.cf, user_id, n_recommendations * 2)
           predict == EngineCall("predict", user_id, n_recommendations * 2)
           answer(content) ==
               \E ids \in UniqueBookIds(collab, content) :
                  /\ collab_recs' = collab
                  /\ content_recs' = content
                  /\ ret' = [raised |-> FALSE,
                             out |-> SrcHybridList(srcRec, collab, content, ids,
                                                   SrcListenedBooks(srcRec, user_id),
                                                   n_recommendations)]
       IN IF SrcTopRatedBooks(srcRec, user_id) = {}
          THEN /\ engine_calls' = <<predict>>
               /\ answer(<<>>)
          ELSE \E top_book_id \in SrcTopRatedBooks(srcRec, user_id) :
                  /\ engine_calls' =
                         <<predict, EngineCall("get_similar_books", top_book_id,
                                               n_recommendations * 2)>>
                  /\ \E content \in ContentBased_get_similar_books(
                                         srcRec.cb, top_book_id, n_recommendations * 2) :
                         answer(content)
    /\ call' = [impl |-> "src", op |-> "generate_recommendations",
                id |-> user_id, n |-> n_recommendations]
    /\ UNCHANGED <<srcRec, mlRec, recRec, ctor, assigns, disk, built_once>>
    /\ Remember

\* the unlistened items in reverse order
ReversedUnlistened(o, collab, user_id, n_recommendations) ==
    LET kept == SelectSeq(collab, LAMBDA r : r.book_id \notin SrcListenedBooks(o, user_id))
    IN Take([i \in 1..Len(kept) |-> kept[Len(kept) + 1 - i]], n_recommendations)

\* the list get_user_recommendations makes of predict's items
SrcUserRecommendationsList(o, collab, user_id, n_recommendations) ==
    Take(SelectSeq(collab, LAMBDA r : r.book_id \notin SrcListenedBooks(o, user_id)),
         n_recommendations)

\* HybridRecommender.get_user_recommendations
SrcUserRecommendations(user_id, n_recommendations) ==
    /\ srcRec.exists
    /\ call = NoCall
    /\ call' = [impl |-> "src", op |-> "get_user_recommendations",
                id |-> user_id, n |-> n_recommendations]
    /\ LET collab == CollaborativeFilter_predict(srcRec.cf, user_id, n_recommendations)
       IN /\ engine_calls' = <<EngineCall("predict", user_id, n_recommendations)>>
          /\ collab_recs' = collab
          /\ ret' = [raised |-> FALSE,
                     out |-> SrcUserRecommendationsList(srcRec, collab, user_id,
                                                        n_recommendations)]
    /\ content_recs' = <<>>
    /\ UNCHANGED <<srcRec, mlRec, recRec, ctor, assigns, history, disk, built_once>>

\* the list get_similar_books makes of the content engine's items
SrcSimilarBooksList(similar_books, book_id) ==
    SelectSeq(similar_books, LAMBDA r : r.book_id /= book_id)

\* HybridRecommender.get_similar_books
SrcSimilarBooks(book_id, n_recommendations) ==
    /\ srcRec.exists
    /\ call = NoCall
    /\ call' = [impl |-> "src", op |-> "get_similar_books",
                id |-> book_id, n |-> n_recommendations]
    /\ \E similar_books \in
             ContentBased_get_similar_books(srcRec.cb, book_id, n_recommendations) :
          /\ engine_calls' = <<EngineCall("get_similar_books", book_id, n_recommendations)>>
          /\ content_recs' = similar_books
          /\ ret' = [raised |-> FALSE, out |-> SrcSimilarBooksList(similar_books, book_id)]
    /\ collab_recs' = <<>>
    /\ UNCHANGED <<srcRec, mlRec, recRec, ctor, assigns, history, disk, built_once>>

(***************************************************************************)
(* Input data of the ml package: the interaction table that                *)
(* ml/preprocess_data.py turns into user_item_matrix.npz and               *)
(* id_mappings.json, and audiobooks.csv with the content features built    *)
(* from it, row for row.                                                   *)
(***************************************************************************)
InteractionRow(u, b, p, r) == [user_id |-> u, book_id |-> b, progress |-> p, rating |-> r]

\* the rows interaction tables are made of; rating None is a missing rating
InteractionRows ==
    { InteractionRow(1, 1, 100, Some(4)), InteractionRow(1, 2, 0, None),
      InteractionRow(1, 2, 50, None),     InteractionRow(2, 1, 100, Some(2)),
      InteractionRow(2, 3, 50, Some(2)) }

\* an interaction table: between 1 and MaxInteractionRows different rows, in any order
InteractionTables ==
    UNION {Perms(S) : S \in {T \in SUBSET InteractionRows :
                                T /= {} /\ Cardinality(T) <= MaxInteractionRows}}

\* audiobooks.csv: two or three of the books, with their feature rows
AudiobookTables ==
    {[i \in 1..Len(p) |-> [book_id |-> p[i], features |-> f[p[i]]]] :
        p \in {<<1, 2>>, <<2, 1>>, <<1, 2, 3>>}, f \in FeatureSchemes}

MlCollabWeights == {-100000, 600000}
MlContentWeights == {400000, 400002, 400011, 1100000}

(***************************************************************************)
(* ml/preprocess_data.py: create_user_item_matrix                          *)
(***************************************************************************)
\* Series.unique(): the distinct values in order of first appearance
RECURSIVE Unique(_)
Unique(s) ==
    IF s = <<>> THEN <<>>
    ELSE LET front == Unique(SubSeq(s, 1, Len(s) - 1))
         IN IF s[Len(s)] \in Range(front) THEN front ELSE Append(front, s[Len(s)])

user_ids(t) == Unique([i \in 1..Len(t) |-> t[i].user_id])
book_ids(t) == Unique([i \in 1..Len(t) |-> t[i].book_id])

\* the interaction value of one row, in tenths
InteractionValue(row) ==
    IF row.rating = None THEN row.progress \div 10
    ELSE (Val(row.rating) * row.progress) \div 10

\* csr_matrix((values, (rows, cols))) adds up the values given for the same cell
create_user_item_matrix(t) ==
    [i \in 1..Len(user_ids(t)) |->
        [j \in 1..Len(book_ids(t)) |->
            SumSeq([k \in 1..Len(t) |->
                       IF t[k].user_id = user_ids(t)[i] /\ t[k].book_id = book_ids(t)[j]
                       THEN InteractionValue(t[k]) ELSE 0])]]

\* the rows of data/raw/user_interactions.csv: those above, a second row with a
\* value for a pair that has one, and rows with a progress or a rating out of range
RawInteractionRows ==
    InteractionRows \cup
    { InteractionRow(1, 1, 50, Some(4)),   InteractionRow(2, 2, 150, None),
      InteractionRow(2, 2, 100, Some(6)),  InteractionRow(1, 3, -10, Some(3)),
      InteractionRow(2, 2, 50, Some(0)) }

RawInteractionTables ==
    UNION {Perms(S) : S \in {T \in SUBSET RawInteractionRows :
                                T /= {} /\ Cardinality(T) <= MaxRawRows}}

\* data/processed before main() has run
NoFiles == [user_interactions |-> None, id_mappings |-> None, user_item_matrix |-> None]

\* main(): load_data, create_user_item_matrix (which writes id_mappings.json),
\* sparse.save_npz; nothing in it looks at the range of progress or rating.
\* One run is modelled: a second run reads none of the files the first wrote
\* and writes all of them again.
Preprocess(interactions) ==
    /\ disk = NoFiles
    /\ disk' = [user_interactions |-> Some(interactions),
                id_mappings |-> Some([idx_to_user |-> user_ids(interactions),
                                      idx_to_book |-> book_ids(interactions)]),
                user_item_matrix |-> Some(create_user_item_matrix(interactions))]
    /\ UNCHANGED <<srcRec, mlRec, recRec, ctor, call, ret, collab_recs, content_recs,
                   assigns, engine_calls, history, built_once>>

(***************************************************************************)
(* ml/collaborative_filtering.py: UserUserCollaborativeFiltering           *)
(***************************************************************************)
SimilarUsersN == 10

Raise == [raised |-> TRUE, out |-> <<>>]
Return_(x) == [raised |-> FALSE, out |-> x]

InCatalog(audiobooks, book_id) == \E i \in 1..Len(audiobooks) : audiobooks[i].book_id = book_id

\* get_similar_users: every list it may return, as [user_id, similarity]
get_similar_users(o, user_id, n) ==
    LET user_idx == IndexOf(o.idx_to_user, user_id)
        user_similarities == o.user_similarity[user_idx]
    IN { LET similar_user_idxs == SubSeq(order, 2, Min(n + 1, Len(order)))
         IN [k \in 1..Len(similar_user_idxs) |->
                [user_id |-> o.idx_to_user[similar_user_idxs[k]],
                 similarity |-> user_similarities[similar_user_idxs[k]]]]
         : order \in ArgsortReversed(user_similarities) }

\* predicted_ratings[listened_mask] = -1
MaskListened(user_vector, predicted_ratings) ==
    [j \in 1..Len(user_vector) |->
        IF user_vector[j] > 0 THEN -SScale ELSE predicted_ratings[j]]

\* the predicted ratings of all books for one choice of similar users, in hundredths
PredictedRatings(o, user_id, similar_users, exclude_listened) ==
    LET m == o.user_item_matrix
        user_vector == m[IndexOf(o.idx_to_user, user_id)]
        weighted_sum ==
            [j \in 1..Len(user_vector) |->
                SumSeq([k \in 1..Len(similar_users) |->
                           similar_users[k].similarity
                               * m[IndexOf(o.idx_to_user, similar_users[k].user_id)][j]])]
        abs_sum == SumSeq([k \in 1..Len(similar_users) |-> Abs(similar_users[k].similarity)])
        weight_sum == IF abs_sum = 0 THEN SScale ELSE abs_sum
        predicted_ratings ==
            [j \in 1..Len(user_vector) |-> (weighted_sum[j] * 10) \div weight_sum]
    IN IF exclude_listened THEN MaskListened(user_vector, predicted_ratings)
       ELSE predicted_ratings

\* get_user_recommendations: every outcome, a list of [book_id, score] or a raise
get_user_recommendations(o, user_id, top_n, exclude_listened) ==
    IF user_id \notin Range(o.idx_to_user) THEN {Raise}                  \* KeyError
    ELSE UNION {
              LET predicted_ratings ==
                      PredictedRatings(o, user_id, similar_users, exclude_listened)
              IN { LET top_book_idxs == Take(order, top_n)
                   IN IF \E k \in 1..Len(top_book_idxs) :
                             ~InCatalog(o.audiobooks, o.idx_to_book[top_book_idxs[k]])
                      THEN Raise                                       \* IndexError
                      ELSE Return_([k \in 1..Len(top_book_idxs) |->
                                      [book_id |-> o.idx_to_book[top_book_idxs[k]],
                                       score |-> predicted_ratings[top_book_idxs[k]]]])
                   : order \in ArgsortReversed(predicted_ratings) }
              : similar_users \in get_similar_users(o, user_id, SimilarUsersN) }

(***************************************************************************)
(* ml/content_based.py: ContentBasedRecommender                            *)
(***************************************************************************)
\* get_similar_books(book_id, top_n, include_scores=True): every outcome
MlGetSimilarBooks(o, book_id, top_n) ==
    LET books == o.idx_to_book
    IN IF book_id \notin Range(books) THEN {Raise}                     \* KeyError
       ELSE LET book_idx == IndexOf(books, book_id)     \* index in the interaction matrix
            IN IF book_idx > Len(o.audiobooks) THEN {Raise}            \* IndexError
               ELSE LET similarities == o.similarity_matrix[book_idx]
                    IN { LET similar_idxs == SubSeq(order, 2, Min(top_n + 1, Len(order)))
                         IN IF \/ ~InCatalog(o.audiobooks, book_id)
                               \/ \E k \in 1..Len(similar_idxs) :
                                     \/ similar_idxs[k] > Len(books)   \* KeyError
                                     \/ ~InCatalog(o.audiobooks, books[similar_idxs[k]])
                            THEN Raise
                            ELSE Return_([k \in 1..Len(similar_idxs) |->
                                            [book_id |-> books[similar_idxs[k]],
                                             score |-> similarities[similar_idxs[k]]]])
                         : order \in ArgsortReversed(similarities) }

(***************************************************************************)
(* ml/recommendation_engine.py: HybridRecommender                          *)
(***************************************************************************)
\* np.isclose(a, b): |a - b| <= atol + rtol * |b| with atol 1e-8, rtol 1e-5
IsClose(a, b) == Abs(a - b) * 100 <= 1 + Abs(b) \div 1000

MlWeightsValid(cw, ctw) == IsClose(cw + ctw, WScale)

MlNew ==
    [exists |-> FALSE, collaborative_weight |-> 0, content_weight |-> 0,
     interactions |-> <<>>, user_item_matrix |-> <<>>, idx_to_user |-> <<>>,
     idx_to_book |-> <<>>, user_similarity |-> <<>>, audiobooks |-> <<>>,
     similarity_matrix |-> <<>>]

\* what the two engines load and compute when they are constructed
MlLoaded(cw, ctw, t, audiobooks) ==
    [exists |-> TRUE, collaborative_weight |-> cw, content_weight |-> ctw,
     interactions |-> t,
     user_item_matrix |-> create_user_item_matrix(t),
     idx_to_user |-> user_ids(t),
     idx_to_book |-> book_ids(t),
     user_similarity |-> SimilarityMatrix(create_user_item_matrix(t)),
     audiobooks |-> audiobooks,
     similarity_matrix |->
         SimilarityMatrix([i \in 1..Len(audiobooks) |-> audiobooks[i].features])]

\* HybridRecommender.__init__ ; the processed files on disk are read here
MlConstruct(cw, ctw, t, audiobooks) ==
    /\ ctor.impl = ""
    /\ ctor' = [impl |-> "ml", cw |-> cw, ctw |-> ctw, raised |-> ~MlWeightsValid(cw, ctw)]
    /\ mlRec' = IF MlWeightsValid(cw, ctw)
                THEN MlLoaded(cw, ctw, t, audiobooks)
                ELSE mlRec
    /\ UNCHANGED <<srcRec, recRec, call, ret, collab_recs, content_recs, assigns, engine_calls, history, disk, built_once>>

\* HybridRecommender._get_user_listened_books
MlListenedBooks(o, user_id) ==
    LET user_vector == o.user_item_matrix[IndexOf(o.idx_to_user, user_id)]
    IN {o.idx_to_book[j] : j \in {i \in 1..Len(user_vector) : user_vector[i] > 0}}

\* the similar books of the anchors, one after the other: every outcome,
\* a list of [book_id, score] in the order they were appended, and the number
\* of anchors get_similar_books was called for
RECURSIVE MlSimilarOfAnchors(_, _, _)
MlSimilarOfAnchors(o, top_book_ids, n) ==
    IF top_book_ids = <<>> THEN {[raised |-> FALSE, out |-> <<>>, called |-> 0]}
    ELSE UNION {
           IF first.raised THEN {[raised |-> TRUE, out |-> <<>>, called |-> 1]}
           ELSE { [raised |-> rest.raised,
                   out |-> IF rest.raised THEN <<>> ELSE first.out \o rest.out,
                   called |-> 1 + rest.called]
                  : rest \in MlSimilarOfAnchors(o, Tail(top_book_ids), n) }
           : first \in MlGetSimilarBooks(o, Head(top_book_ids), n) }

\* np.mean of the scores appended for each book, books in order of first appearance
MeanScores(hits) ==
    LET ids == Unique([i \in 1..Len(hits) |-> hits[i].book_id])
        scores(b) == SelectSeq(hits, LAMBDA h : h.book_id = b)
    IN [i \in 1..Len(ids) |->
           [book_id |-> ids[i],
            score |-> SumSeq([k \in 1..Len(scores(ids[i])) |-> scores(ids[i])[k].score])
                          \div Len(scores(ids[i]))]]

\* the books the user's row of the matrix is ranked highest for: a book of
\* value 0 among them when the row has fewer than 3 cells above 0
TopBookIds(o, user_id) ==
    LET user_vector == o.user_item_matrix[IndexOf(o.idx_to_user, user_id)]
    IN { [k \in 1..Min(3, Len(order)) |-> o.idx_to_book[order[k]]]
         : order \in ArgsortReversed(user_vector) }

\* HybridRecommender._get_content_recommendations: every outcome, with the
\* anchors get_similar_books was called for
MlContentRecommendations(o, user_id, n) ==
    IF user_id \notin Range(o.idx_to_user)                               \* KeyError
    THEN {[raised |-> TRUE, out |-> <<>>, anchors |-> <<>>]}
    ELSE UNION {
           { [raised |-> r.raised,
              out |-> IF r.raised THEN <<>> ELSE MeanScores(r.out),
              anchors |-> Take(top_book_ids, r.called)]
             : r \in MlSimilarOfAnchors(o, top_book_ids, n) }
           : top_book_ids \in TopBookIds(o, user_id) }

\* min-max scaling that leaves the scores as they are when their range is zero
RawWhenZeroRange(scores) ==
    IF scores = <<>> THEN <<>>
    ELSE LET vals == {scores[i].score : i \in 1..Len(scores)}
             lo == CHOOSE v \in vals : \A w \in vals : v <= w
             hi == CHOOSE v \in vals : \A w \in vals : v >= w
         IN [i \in 1..Len(scores) |->
               [book_id |-> scores[i].book_id,
                score |-> IF hi > lo THEN ((scores[i].score - lo) * SScale) \div (hi - lo)
                          ELSE scores[i].score]]

\* normalize_scores: min-max scaling to hundredths; a zero range gives 1.0
MlNormalizeScores(scores) ==
    IF scores = <<>> THEN <<>>
    ELSE LET vals == {scores[i].score : i \in 1..Len(scores)}
             min_score == CHOOSE v \in vals : \A w \in vals : v <= w
             max_score == CHOOSE v \in vals : \A w \in vals : v >= w
             score_range == max_score - min_score
         IN [i \in 1..Len(scores) |->
               [book_id |-> scores[i].book_id,
                score |-> IF score_range = 0 THEN SScale
                          ELSE ((scores[i].score - min_score) * SScale) \div score_range]]

\* a score made of the collaborative term alone
CollabTermOnly(o, collab_scores, content_scores, book_id) ==
    o.collaborative_weight * DictGet(collab_scores, book_id)

\* the blended score of one book
MlHybridScore(o, collab_scores, content_scores, book_id) ==
    o.collaborative_weight * DictGet(collab_scores, book_id)
        + o.content_weight * DictGet(content_scores, book_id)

\* the list generate_recommendations returns for one enumeration order, or a raise
MlHybridList(o, collaborative_recs, content_recs_, ids, listened_books, top_n) ==
    LET collab_scores == MlNormalizeScores(collaborative_recs)
        content_scores == MlNormalizeScores(content_recs_)
        hybrid_scores ==
            [i \in 1..Len(ids) |->
                [book_id |-> ids[i],
                 score |-> MlHybridScore(o, collab_scores, content_scores, ids[i])]]
        top_books ==
            Take(SortByScoreDesc(SelectSeq(hybrid_scores,
                                           LAMBDA x : x.book_id \notin listened_books)),
                 top_n)
    IN IF \E k \in 1..Len(top_books) : ~InCatalog(o.audiobooks, top_books[k].book_id)
       THEN Raise                                                      \* IndexError
       ELSE Return_([k \in 1..Len(top_books) |->
                       [book_id |-> top_books[k].book_id,
                        hybrid_score |-> top_books[k].score,
                        collaborative_score |-> DictGet(collab_scores, top_books[k].book_id),
                        content_score |-> DictGet(content_scores, top_books[k].book_id)]])

\* HybridRecommender.generate_recommendations
MlGenerate(user_id, top_n) ==
    /\ mlRec.exists
    /\ call \in {NoCall, Asked("ml", user_id, top_n)}
    /\ call' = [impl |-> "ml", op |-> "generate_recommendations", id |-> user_id, n |-> top_n]
    /\ IF AnsweredBefore THEN SameAnswer ELSE
       \E c \in get_user_recommendations(mlRec, user_id, top_n * 2, TRUE) :
          IF c.raised
          THEN /\ ret' = Raise /\ collab_recs' = <<>> /\ content_recs' = <<>>
               /\ engine_calls' = <<>>
          ELSE \E s \in MlContentRecommendations(mlRec, user_id, top_n * 2) :
                 /\ engine_calls' = [k \in 1..Len(s.anchors) |->
                                        EngineCall("get_similar_books", s.anchors[k],
                                                   top_n * 2)]
                 /\ IF s.raised
                    THEN ret' = Raise /\ collab_recs' = c.out /\ content_recs' = <<>>
                    ELSE \E ids \in UniqueBookIds(c.out, s.out) :
                           /\ collab_recs' = c.out
                           /\ content_recs' = s.out
                           /\ ret' = MlHybridList(mlRec, c.out, s.out, ids,
                                                  MlListenedBooks(mlRec, user_id), top_n)
    /\ UNCHANGED <<srcRec, mlRec, recRec, ctor, assigns, disk, built_once>>
    /\ Remember

\* UserUserCollaborativeFiltering.get_user_recommendations(user_id, top_n)
MlUserRecommendations(user_id, top_n) ==
    /\ mlRec.exists
    /\ call = NoCall
    /\ call' = [impl |-> "ml", op |-> "get_user_recommendations", id |-> user_id, n |-> top_n]
    /\ \E c \in get_user_recommendations(mlRec, user_id, top_n, TRUE) : ret' = c
    /\ collab_recs' = <<>>
    /\ content_recs' = <<>>
    /\ UNCHANGED <<srcRec, mlRec, recRec, ctor, assigns, engine_calls, history, disk, built_once>>

\* ContentBasedRecommender.get_similar_books(book_id, top_n, include_scores=True)
MlSimilarBooks(book_id, top_n) ==
    /\ mlRec.exists
    /\ call = NoCall
    /\ call' = [impl |-> "ml", op |-> "get_similar_books", id |-> book_id, n |-> top_n]
    /\ \E r \in MlGetSimilarBooks(mlRec, book_id, top_n) : ret' = r
    /\ collab_recs' = <<>>
    /\ content_recs' = <<>>
    /\ UNCHANGED <<srcRec, mlRec, recRec, ctor, assigns, engine_calls, history, disk, built_once>>

\* UserUserCollaborativeFiltering.get_similar_users(user_id, n)
MlSimilarUsers(user_id, n) ==
    /\ mlRec.exists
    /\ call = NoCall
    /\ call' = [impl |-> "ml", op |-> "get_similar_users", id |-> user_id, n |-> n]
    /\ IF user_id \notin Range(mlRec.idx_to_user)
       THEN ret' = Raise                                               \* KeyError
       ELSE \E r \in get_similar_users(mlRec, user_id, n) : ret' = Return_(r)
    /\ collab_recs' = <<>>
    /\ content_recs' = <<>>
    /\ UNCHANGED <<srcRec, mlRec, recRec, ctor, assigns, engine_calls, history, disk, built_once>>

(***************************************************************************)
(* recommender/hybrid_recommender.py: HybridRecommender                    *)
(***************************************************************************)
RecCollabWeights == {600000}
RecContentWeights == {400000}

RecNew ==
    [exists |-> FALSE, collaborative_weight |-> 0, content_weight |-> 0,
     books_df |-> None, ratings_df |-> None, user_item_matrix |-> None,
     content_similarity_matrix |-> None]

\* HybridRecommender.__init__ : the weights are stored as given
RecConstruct(cw, ctw) ==
    /\ ctor.impl = ""
    /\ ctor' = [impl |-> "recommender", cw |-> cw, ctw |-> ctw, raised |-> FALSE]
    /\ recRec' = [RecNew EXCEPT !.exists = TRUE,
                                !.collaborative_weight = cw,
                                !.content_weight = ctw]
    /\ UNCHANGED <<srcRec, mlRec, call, ret, collab_recs, content_recs, assigns, engine_calls, history, disk, built_once>>

\* HybridRecommender.load_data
RecLoadData(books, ratings) ==
    /\ recRec.exists
    /\ recRec.books_df = None
    /\ call = NoCall
    /\ call' = [impl |-> "recommender", op |-> "load_data", id |-> 0, n |-> 0]
    /\ recRec' = [recRec EXCEPT !.books_df = Some(books),
                                !.ratings_df = Some(ratings),
                                !.user_item_matrix =
                                    IF PivotRaises(ratings) THEN None
                                    ELSE Some(Pivot(ratings)),
                                !.content_similarity_matrix =
                                    IF PivotRaises(ratings) THEN None
                                    ELSE Some(SimilarityMatrix(
                                             [i \in 1..Len(books) |-> books[i].features]))]
    /\ ret' = [raised |-> PivotRaises(ratings), out |-> <<>>]
    /\ collab_recs' = <<>>
    /\ content_recs' = <<>>
    /\ UNCHANGED <<srcRec, mlRec, ctor, assigns, engine_calls, history, disk, built_once>>

\* dict(pairs): one entry per key, in order of first insertion, the last value kept
DictOf(pairs) ==
    LET keys == Unique([i \in 1..Len(pairs) |-> pairs[i].book_id])
    IN [i \in 1..Len(keys) |-> [book_id |-> keys[i], score |-> DictGet(pairs, keys[i])]]

\* HybridRecommender._get_collaborative_recommendations
RecCollaborativeRecommendations(o, user_id, n_recommendations) ==
    LET m == Val(o.user_item_matrix)
        books_df == Val(o.books_df)
    IN IF user_id \notin Range(m.index) THEN <<>>
       ELSE LET user_ratings == m.values[IndexOf(m.index, user_id)]
                transposed == [j \in 1..Len(m.columns) |->
                                  [i \in 1..Len(m.index) |-> m.values[i][j]]]
                item_similarity == SimilarityMatrix(transposed)
                rated == SelectSeq([i \in 1..Len(books_df) |-> books_df[i].book_id],
                                   LAMBDA b : b \in Range(m.columns))
                weighted_sum == [j \in 1..Len(m.columns) |-> Dot(item_similarity[j], user_ratings)]
                similarity_sum ==
                    [j \in 1..Len(m.columns) |->
                        SumSeq([k \in 1..Len(m.columns) |-> Abs(item_similarity[j][k])])]
                kept == SelectSeq(rated,
                                  LAMBDA b : similarity_sum[IndexOf(m.columns, b)] /= 0)
                predictions ==
                    DictOf([i \in 1..Len(kept) |->
                               [book_id |-> kept[i],
                                score |-> (weighted_sum[IndexOf(m.columns, kept[i])] * SScale)
                                              \div similarity_sum[IndexOf(m.columns, kept[i])]]])
            IN Take(SortByScoreDesc(predictions), n_recommendations)

\* DataFrame.nlargest(5, 'rating'): the rows by descending rating, ties in table order
RECURSIVE InsertByRating(_, _)
InsertByRating(x, s) ==
    IF s = <<>> THEN <<x>>
    ELSE IF Head(s).rating >= x.rating THEN <<Head(s)>> \o InsertByRating(x, Tail(s))
    ELSE <<x>> \o s

RECURSIVE SortByRatingDesc(_)
SortByRatingDesc(s) ==
    IF s = <<>> THEN <<>>
    ELSE InsertByRating(s[Len(s)], SortByRatingDesc(SubSeq(s, 1, Len(s) - 1)))

TopRatedN == 5

\* max(similar_books[book_id], score * rating) folded over the (anchor, row) pairs
RECURSIVE DictMax(_, _)
DictMax(pairs, key) ==
    IF pairs = <<>> THEN -1
    ELSE LET rest == DictMax(SubSeq(pairs, 1, Len(pairs) - 1), key)
             last == pairs[Len(pairs)]
         IN IF last.book_id /= key THEN rest
            ELSE IF rest = -1 THEN last.score ELSE Max(rest, last.score)

RECURSIVE Flatten(_)
Flatten(ss) == IF ss = <<>> THEN <<>> ELSE Head(ss) \o Flatten(Tail(ss))

\* HybridRecommender._get_content_recommendations: the list, or a raise
RecContentRecommendations(o, user_id, n_recommendations) ==
    LET books_df == Val(o.books_df)
        user_ratings == SelectSeq(Val(o.ratings_df), LAMBDA r : r.user_id = user_id)
        top_rated == Take(SortByRatingDesc(user_ratings), TopRatedN)
    IN IF \E k \in 1..Len(top_rated) : ~InCatalog(books_df, top_rated[k].book_id)
       THEN Raise                                                      \* IndexError
       ELSE LET scored(row) ==
                    LET hits == {i \in 1..Len(books_df) : books_df[i].book_id = row.book_id}
                        book_idx == CHOOSE i \in hits : \A j \in hits : i <= j
                    IN [idx \in 1..Len(books_df) |->
                           [book_id |-> books_df[idx].book_id,
                            score |-> Val(o.content_similarity_matrix)[book_idx][idx]
                                          * row.rating]]
                pairs == Flatten([k \in 1..Len(top_rated) |-> scored(top_rated[k])])
                keys == Unique([i \in 1..Len(pairs) |-> pairs[i].book_id])
                similar_books ==
                    [i \in 1..Len(keys) |->
                        [book_id |-> keys[i], score |-> DictMax(pairs, keys[i])]]
            IN Return_(Take(SortByScoreDesc(similar_books), n_recommendations))

\* normalize_scores: min-max scaling when the scores differ, else the scores as they are
RecNormalizeScores(scores_dict) ==
    IF scores_dict = <<>> THEN <<>>
    ELSE LET vals == {scores_dict[i].score : i \in 1..Len(scores_dict)}
             min_val == CHOOSE v \in vals : \A w \in vals : v <= w
             max_val == CHOOSE v \in vals : \A w \in vals : v >= w
         IN [i \in 1..Len(scores_dict) |->
               [book_id |-> scores_dict[i].book_id,
                score |-> IF max_val > min_val
                          THEN ((scores_dict[i].score - min_val) * SScale)
                                   \div (max_val - min_val)
                          ELSE scores_dict[i].score]]

\* HybridRecommender._get_user_listened_books
RecListenedBooks(o, user_id) ==
    {r.book_id : r \in {x \in Range(Val(o.ratings_df)) : x.user_id = user_id}}

\* the list generate_recommendations returns for one enumeration order
RecHybridList(o, collab, content, ids, listened_books, n_recommendations) ==
    LET hybrid_scores ==
            [i \in 1..Len(ids) |->
                [book_id |-> ids[i],
                 score |-> DictGet(collab, ids[i]) * o.collaborative_weight
                               + DictGet(content, ids[i]) * o.content_weight]]
        unlistened == SelectSeq(hybrid_scores, LAMBDA x : x.book_id \notin listened_books)
    IN Take(SortByScoreDesc(unlistened), n_recommendations)

\* HybridRecommender.generate_recommendations
\* generate_recommendations of the object o: every outcome, with the two
\* engines' outputs
RecGenerateOutcomes(o, user_id, n_recommendations) ==
    IF o.user_item_matrix = None
    THEN {[ret |-> Raise, collab_recs |-> <<>>, content_recs |-> <<>>]}   \* no matrix
    ELSE LET c == RecCollaborativeRecommendations(o, user_id, n_recommendations * 2)
             s == RecContentRecommendations(o, user_id, n_recommendations * 2)
         IN IF s.raised
            THEN {[ret |-> Raise, collab_recs |-> c, content_recs |-> <<>>]}
            ELSE {[ret |-> Return_(RecHybridList(o, RecNormalizeScores(c),
                                                 RecNormalizeScores(s.out), ids,
                                                 RecListenedBooks(o, user_id),
                                                 n_recommendations)),
                   collab_recs |-> c, content_recs |-> s.out]
                  : ids \in UniqueBookIds(c, s.out)}

RecGenerate(user_id, n_recommendations) ==
    /\ recRec.exists
    /\ call = NoCall
    /\ call' = [impl |-> "recommender", op |-> "generate_recommendations",
                id |-> user_id, n |-> n_recommendations]
    /\ \E g \in RecGenerateOutcomes(recRec, user_id, n_recommendations) :
          /\ ret' = g.ret
          /\ collab_recs' = g.collab_recs
          /\ content_recs' = g.content_recs
    /\ UNCHANGED <<srcRec, mlRec, recRec, ctor, assigns, engine_calls, history, disk, built_once>>

(***************************************************************************)
(* api/main.py: the POST /recommendations/ handler.  The module makes one  *)
(* recommender and loads its data at startup; the methods and attributes   *)
(* it uses (load_data, n_recommendations, books_df) are those of           *)
(* recommender/hybrid_recommender.py.                                      *)
(***************************************************************************)
\* the weights a request may carry
RequestWeights == {<<600000, 400000>>, <<500000, 500000>>}

\* an HTTPException raised inside the try block is an Exception: the except
\* clause catches it and raises the 500 one
StatusOf(recommendations) ==
    IF recommendations.raised THEN 500
    ELSE IF recommendations.out = <<>> THEN 500      \* the 404 one, caught
    ELSE 200

\* get_recommendations(request)
ApiGetRecommendations(user_id, num_recommendations, weights) ==
    /\ recRec.exists
    /\ recRec.user_item_matrix /= None          \* startup_event did not fail
    /\ call = NoCall
    /\ call' = [impl |-> "api", op |-> "POST /recommendations/",
                id |-> user_id, n |-> num_recommendations]
    /\ LET o == IF \/ weights[1] /= recRec.collaborative_weight
                   \/ weights[2] /= recRec.content_weight
                THEN [recRec EXCEPT !.collaborative_weight = weights[1],
                                    !.content_weight = weights[2]]
                ELSE recRec
       IN /\ recRec' = o
          /\ \E g \in RecGenerateOutcomes(o, user_id, num_recommendations) :
                /\ collab_recs' = g.collab_recs
                /\ content_recs' = g.content_recs
                /\ ret' = [raised |-> StatusOf(g.ret) /= 200,
                           out |-> IF StatusOf(g.ret) = 200 THEN g.ret.out ELSE <<>>,
                           status |-> StatusOf(g.ret),
                           recommendations |-> g.ret]
    /\ UNCHANGED <<srcRec, mlRec, ctor, assigns, engine_calls, history, disk, built_once>>

\* the caller takes the answer of the last request; the next request can be made
Return ==
    /\ call /= NoCall
    /\ call' = NoCall
    /\ ret' = NoRet
    /\ collab_recs' = <<>>
    /\ content_recs' = <<>>
    /\ engine_calls' = <<>>
    /\ history' = <<>>
    /\ UNCHANGED <<srcRec, mlRec, recRec, ctor, assigns, disk, built_once>>

Init ==
    /\ srcRec = SrcNew
    /\ mlRec = MlNew
    /\ recRec = RecNew
    /\ ctor = NoCtor
    /\ call = NoCall
    /\ ret = NoRet
    /\ collab_recs = <<>>
    /\ content_recs = <<>>
    /\ assigns = 0
    /\ engine_calls = <<>>
    /\ history = <<>>
    /\ disk = NoFiles
    /\ built_once = FALSE

\* The guards that do not depend on the arguments are stated before the
\* arguments are chosen, so that no argument is tried where the operation
\* cannot be called.
NextSrc ==
    \/ /\ ctor.impl = ""
       /\ \E cw \in CollabWeights, ctw \in ContentWeights : SrcConstruct(cw, ctw)
    \/ /\ srcRec.exists /\ call = NoCall /\ assigns < MaxAssign
       /\ \E df \in {None} \cup {Some(t) : t \in RatingTables} : SrcSetUserRatings(df)
    \/ /\ srcRec.exists /\ call = NoCall /\ assigns < MaxAssign
       /\ \E df \in {None} \cup {Some(t) : t \in BookTables} : SrcSetBooks(df)
    \/ /\ srcRec.exists /\ call.impl \in {"", "src"}
       /\ \E u \in ReqUsers, n \in 1..MaxTopN : SrcGenerate(u, n)
    \/ /\ srcRec.exists /\ call = NoCall
       /\ \E u \in ReqUsers, n \in 1..MaxTopN : SrcUserRecommendations(u, n)
    \/ /\ srcRec.exists /\ call = NoCall
       /\ \E b \in ReqBooks, n \in 1..MaxTopN : SrcSimilarBooks(b, n)

SpecSrc == Init /\ [][NextSrc \/ Return]_vars

\* The tables of the runs that follow the fitted models through the assignments:
\* two ratings tables, one with two rows for one (user, book) pair, two books
\* tables, and None
LifeRatingTables ==
    { <<RatingRow(1, 1, 5), RatingRow(2, 1, 5), RatingRow(2, 2, 5)>>,
      <<RatingRow(1, 2, 3), RatingRow(2, 1, 5), RatingRow(2, 3, 3)>>,
      <<RatingRow(1, 1, 5), RatingRow(1, 1, 3)>> }

LifeBookTables ==
    { [i \in 1..3 |-> [book_id |-> i,
                       features |-> IF i = 1 THEN <<2, 0>> ELSE IF i = 2 THEN <<1, 1>> ELSE <<0, 1>>]],
      [i \in 1..2 |-> [book_id |-> i, features |-> <<1, 0>>]] }

NextSrcLife ==
    \/ /\ ctor.impl = ""
       /\ SrcConstruct(600000, 400000)
    \/ /\ srcRec.exists /\ call = NoCall /\ assigns < MaxLifeAssign
       /\ \E df \in {None} \cup {Some(t) : t \in LifeRatingTables} : SrcSetUserRatings(df)
    \/ /\ srcRec.exists /\ call = NoCall /\ assigns < MaxLifeAssign
       /\ \E df \in {None} \cup {Some(t) : t \in LifeBookTables} : SrcSetBooks(df)
    \/ /\ srcRec.exists /\ call.impl \in {"", "src"}
       /\ \E u \in ReqUsers, n \in 1..MaxTopN : SrcGenerate(u, n)
    \/ /\ srcRec.exists /\ call = NoCall
       /\ \E u \in ReqUsers, n \in 1..MaxTopN : SrcUserRecommendations(u, n)
    \/ /\ srcRec.exists /\ call = NoCall
       /\ \E b \in ReqBooks, n \in 1..MaxTopN : SrcSimilarBooks(b, n)

SpecSrcLife == Init /\ [][NextSrcLife \/ Return]_vars

NextMl ==
    \/ /\ ctor.impl = ""
       /\ \E cw \in MlCollabWeights, ctw \in MlContentWeights :
             \E t \in InteractionTables, a \in AudiobookTables : MlConstruct(cw, ctw, t, a)
    \/ /\ mlRec.exists /\ call.impl \in {"", "ml"}
       /\ \E u \in ReqUsers, n \in 1..MaxTopN : MlGenerate(u, n)
    \/ /\ mlRec.exists /\ call = NoCall
       /\ \E u \in ReqUsers, n \in 1..MaxTopN : MlUserRecommendations(u, n)
    \/ /\ mlRec.exists /\ call = NoCall
       /\ \E b \in ReqBooks, n \in 1..MaxTopN : MlSimilarBooks(b, n)
    \/ /\ mlRec.exists /\ call = NoCall
       /\ \E u \in ReqUsers, n \in 1..MaxTopN : MlSimilarUsers(u, n)

SpecMl == Init /\ [][NextMl \/ Return]_vars

NextRec ==
    \/ /\ ctor.impl = ""
       /\ \E cw \in RecCollabWeights, ctw \in RecContentWeights : RecConstruct(cw, ctw)
    \/ /\ recRec.exists /\ recRec.books_df = None /\ call = NoCall
       /\ \E b \in BookTables, r \in RatingTables : RecLoadData(b, r)
    \/ /\ recRec.exists /\ call = NoCall
       /\ \E u \in ReqUsers, n \in 1..MaxTopN : RecGenerate(u, n)

SpecRec == Init /\ [][NextRec \/ Return]_vars

NextApi ==
    \/ /\ ctor.impl = ""
       /\ \E cw \in RecCollabWeights, ctw \in RecContentWeights : RecConstruct(cw, ctw)
    \/ /\ recRec.exists /\ recRec.books_df = None /\ call = NoCall
       /\ \E b \in BookTables, r \in RatingTables : RecLoadData(b, r)
    \/ /\ recRec.exists /\ recRec.user_item_matrix /= None /\ call = NoCall
       /\ \E u \in ReqUsers, n \in 1..MaxTopN, w \in RequestWeights :
             ApiGetRecommendations(u, n, w)

SpecApi == Init /\ [][NextApi \/ Return]_vars

SpecSrcRec == Init /\ [][NextSrc \/ NextRec \/ Return]_vars

SpecSrcMl == Init /\ [][NextSrc \/ NextMl \/ Return]_vars

NextPre == \E interactions \in RawInteractionTables : Preprocess(interactions)

SpecPre == Init /\ [][NextPre]_vars

Next == NextSrc \/ NextMl \/ NextRec \/ Return
Spec == Init /\ [][Next]_vars

(***************************************************************************)
(* Properties.                                                             *)
(***************************************************************************)
\* a generate_recommendations request of one implementation has returned a list
Generated(impl) ==
    /\ call.impl = impl
    /\ call.op = "generate_recommendations"
    /\ ~ret.raised

\* the ids of the records of a result list, in order
OutIds == [i \in 1..Len(ret.out) |-> ret.out[i].book_id]

\* the score an engine's output gives a book: that of its entry, 0 without one
EngineScore(recs, book_id) ==
    IF \E i \in 1..Len(recs) : recs[i].book_id = book_id
    THEN (CHOOSE r \in Range(recs) : r.book_id = book_id).score
    ELSE 0

\* the books of which the ratings table has a row for the user
RatedBy(table, user_id) ==
    IF table = None THEN {}
    ELSE {b \in Books : \E i \in 1..Len(Val(table)) :
             Val(table)[i].user_id = user_id /\ Val(table)[i].book_id = b}

\* C1: the book ids generate_recommendations returns (src/src and recommender)
\* are disjoint from the books the user has a row for in the ratings table.
C1_ExcludesRated ==
    /\ Generated("src") =>
           Range(OutIds) \cap RatedBy(srcRec.user_ratings, call.id) = {}
    /\ Generated("recommender") =>
           Range(OutIds) \cap RatedBy(recRec.ratings_df, call.id) = {}

\* C1: the engines proposed a book the user has rated, and a list came back
C1_Witness ==
    /\ Generated("recommender")
    /\ ret.out /= <<>>
    /\ (Keys(collab_recs) \cup Keys(content_recs))
           \cap RatedBy(recRec.ratings_df, call.id) /= {}

\* C4: the list generate_recommendations returns (src/src and ml) is ordered by
\* non-increasing hybrid score.
C4_SortedByScore ==
    /\ Generated("src") =>
           \A i \in 1..(Len(ret.out) - 1) : ret.out[i].score >= ret.out[i + 1].score
    /\ Generated("ml") =>
           \A i \in 1..(Len(ret.out) - 1) :
               ret.out[i].hybrid_score >= ret.out[i + 1].hybrid_score

\* C4: a list of two records with different scores came back
C4_Witness ==
    /\ Generated("ml")
    /\ Len(ret.out) = 2
    /\ ret.out[1].hybrid_score /= ret.out[2].hybrid_score

\* C5: no book id appears twice in a list generate_recommendations (src/src) returns.
C5_NoDuplicates ==
    Generated("src") =>
        \A i, j \in 1..Len(ret.out) : i /= j => ret.out[i].book_id /= ret.out[j].book_id

\* C5: both engines proposed the same book, and it is in the list
C5_Witness ==
    /\ Generated("src")
    /\ Keys(collab_recs) \cap Keys(content_recs) \cap Range(OutIds) /= {}

\* C7: constructing the src/src recommender succeeds exactly when both weights are
\* in [0, 1] and their sum is within 1e-6 of 1; otherwise it raises and no
\* recommender is created.
C7_ConstructionValidatesWeights ==
    ctor.impl = "src" =>
        LET inRange == /\ 0 <= ctor.cw /\ ctor.cw <= WScale
                       /\ 0 <= ctor.ctw /\ ctor.ctw <= WScale
            sumOff == IF ctor.cw + ctor.ctw >= WScale
                      THEN ctor.cw + ctor.ctw - WScale
                      ELSE WScale - (ctor.cw + ctor.ctw)
        IN /\ ctor.raised <=> ~(inRange /\ sumOff <= 1)
           /\ srcRec.exists <=> ~ctor.raised
           /\ srcRec.exists =>
                  /\ srcRec.collaborative_weight = ctor.cw
                  /\ srcRec.content_weight = ctor.ctw

\* C7: a weight pair that sums to 1 with a weight out of range was refused
C7_Witness ==
    /\ ctor.impl = "src"
    /\ ctor.raised
    /\ ctor.cw + ctor.ctw = WScale
    /\ ctor.cw < 0

\* C10: the score of every book generate_recommendations (src/src) returns is
\* collaborative_weight * c + content_weight * s, with c the predicted rating the
\* collaborative engine returned and s the similarity the content engine returned
\* (0 where the engine did not return the book), and lies in [0, 5].
C10_RawWeightedScore ==
    Generated("src") =>
        \A i \in 1..Len(ret.out) :
            /\ ret.out[i].score =
                   srcRec.collaborative_weight * EngineScore(collab_recs, ret.out[i].book_id)
                     + srcRec.content_weight * EngineScore(content_recs, ret.out[i].book_id)
            /\ 0 <= ret.out[i].score
            /\ ret.out[i].score <= 5 * SScale * WScale

\* C10: a returned book that both engines scored above 0
C10_Witness ==
    /\ Generated("src")
    /\ \E i \in 1..Len(ret.out) :
          /\ EngineScore(collab_recs, ret.out[i].book_id) > 0
          /\ EngineScore(content_recs, ret.out[i].book_id) > 0

\* the books of which the interaction table has a row for the user
RecordedFor(interactions, user_id) ==
    {b \in Books : \E i \in 1..Len(interactions) :
        interactions[i].user_id = user_id /\ interactions[i].book_id = b}

\* the value the interaction matrix holds for a user and a book of the matrix
MatrixValue(o, user_id, book_id) ==
    o.user_item_matrix[IndexOf(o.idx_to_user, user_id)][IndexOf(o.idx_to_book, book_id)]

\* C2: generate_recommendations (ml) returns no book for which the user has an
\* interaction record, a record whose value in the matrix is 0 included.
C2_ExcludesRecorded ==
    Generated("ml") =>
        Range(OutIds) \cap RecordedFor(mlRec.interactions, call.id) = {}

\* C2: user 1 has listened to book 1 and has a record with progress 0 for book 2;
\* book 2 is in the list returned for user 1
C2_Witness ==
    /\ Generated("ml")
    /\ call.id = 1
    /\ mlRec.interactions =
           <<InteractionRow(1, 1, 100, Some(4)), InteractionRow(1, 2, 0, None)>>
    /\ 2 \in Range(OutIds)

\* C3: get_user_recommendations(user, top_n, exclude_listened=True) returns only
\* books whose interaction value for the user is zero, and exactly
\* min(top_n, number of such books) of them.
C3_OnlyUnseenExactly ==
    (call.impl = "ml" /\ call.op = "get_user_recommendations" /\ ~ret.raised) =>
        LET unseen == {b \in Range(mlRec.idx_to_book) : MatrixValue(mlRec, call.id, b) = 0}
        IN /\ Range(OutIds) \subseteq unseen
           /\ Len(ret.out) = Min(call.n, Cardinality(unseen))

\* C3: a book the user has listened to is in the list, with the score -1
C3_Witness ==
    /\ call.impl = "ml"
    /\ call.op = "get_user_recommendations"
    /\ ~ret.raised
    /\ \E i \in 1..Len(ret.out) :
          /\ MatrixValue(mlRec, call.id, ret.out[i].book_id) > 0
          /\ ret.out[i].score = -SScale

\* C6: generate_recommendations(user, top_n) (src/src and ml) returns exactly
\* min(top_n, E) records, E the number of distinct book ids in the union of the
\* two engines' candidates that the user has not consumed.
C6_ExactlyMinTopNEligible ==
    LET candidates == Keys(collab_recs) \cup Keys(content_recs)
    IN /\ Generated("src") =>
             Len(ret.out) =
                 Min(call.n, Cardinality(candidates \ RatedBy(srcRec.user_ratings, call.id)))
       /\ Generated("ml") =>
             Len(ret.out) =
                 Min(call.n, Cardinality(candidates \ RecordedFor(mlRec.interactions, call.id)))

\* C6: more records than eligible candidates came back from the ml recommender
C6_Witness ==
    /\ Generated("ml")
    /\ Len(ret.out) >
           Cardinality((Keys(collab_recs) \cup Keys(content_recs))
                          \ RecordedFor(mlRec.interactions, call.id))

\* C8: constructing the ml recommender fails for every weight pair with a negative
\* weight or a sum that differs from 1 by more than 1e-6.
C8_RejectsInvalidWeights ==
    ctor.impl = "ml" =>
        LET sumOff == IF ctor.cw + ctor.ctw >= WScale
                      THEN ctor.cw + ctor.ctw - WScale
                      ELSE WScale - (ctor.cw + ctor.ctw)
        IN (ctor.cw < 0 \/ ctor.ctw < 0 \/ sumOff > 1) => (ctor.raised /\ ~mlRec.exists)

\* C8: the pair -0.1/1.1 was accepted and the recommender exists
C8_Witness ==
    /\ ctor.impl = "ml"
    /\ ctor.cw < 0
    /\ ~ctor.raised
    /\ mlRec.exists
    /\ mlRec.collaborative_weight = ctor.cw

\* an engine's min-max normalized score for a book: 0 when the engine did not
\* propose it, 1.0 when all the engine's scores are the same
MinMaxScore(recs, book_id) ==
    IF book_id \notin Keys(recs) THEN 0
    ELSE LET lo == CHOOSE v \in {r.score : r \in Range(recs)} :
                       \A r \in Range(recs) : v <= r.score
             hi == CHOOSE v \in {r.score : r \in Range(recs)} :
                       \A r \in Range(recs) : v >= r.score
         IN IF hi = lo THEN SScale
            ELSE ((EngineScore(recs, book_id) - lo) * SScale) \div (hi - lo)

\* C9: every record generate_recommendations (ml) returns has
\* hybrid_score = collaborative_weight * collaborative_score
\*                  + content_weight * content_score,
\* each engine score the engine's min-max normalized score for the book, or 0 when
\* the engine did not propose it; with weights 0.6/0.4, scores 1.0 and 0.0 give 0.6.
C9_HybridBlend ==
    Generated("ml") =>
        \A i \in 1..Len(ret.out) :
            LET r == ret.out[i]
            IN /\ r.collaborative_score = MinMaxScore(collab_recs, r.book_id)
               /\ r.content_score = MinMaxScore(content_recs, r.book_id)
               /\ r.hybrid_score =
                      mlRec.collaborative_weight * r.collaborative_score
                        + mlRec.content_weight * r.content_score
               /\ ( /\ mlRec.collaborative_weight = 6 * (WScale \div 10)
                    /\ mlRec.content_weight = 4 * (WScale \div 10)
                    /\ r.collaborative_score = SScale
                    /\ r.content_score = 0 )
                  => r.hybrid_score = 6 * (WScale \div 10) * SScale

\* C9: with weights 0.6/0.4 a returned book has normalized collaborative score 1.0
\* and content score 0.0
C9_Witness ==
    /\ Generated("ml")
    /\ mlRec.collaborative_weight = 6 * (WScale \div 10)
    /\ mlRec.content_weight = 4 * (WScale \div 10)
    /\ \E i \in 1..Len(ret.out) :
          /\ ret.out[i].collaborative_score = SScale
          /\ ret.out[i].content_score = 0

\* the raw scores of an engine's candidates
RawScores(recs) == {recs[i].score : i \in 1..Len(recs)}

\* what C11 says of the normalized scores of one engine's candidates
NormalizedWell(recs, norm) ==
    /\ Len(norm) = Len(recs)
    /\ \A i \in 1..Len(recs) :
          /\ norm[i].book_id = recs[i].book_id
          /\ 0 <= norm[i].score /\ norm[i].score <= SScale
          /\ Cardinality(RawScores(recs)) = 1 => norm[i].score = SScale
          /\ Cardinality(RawScores(recs)) > 1 =>
                /\ (\A j \in 1..Len(recs) : recs[i].score <= recs[j].score)
                       => norm[i].score = 0
                /\ (\A j \in 1..Len(recs) : recs[i].score >= recs[j].score)
                       => norm[i].score = SScale

\* C11: in generate_recommendations (ml) each engine's normalized scores lie in
\* [0, 1], the minimum raw score mapping to 0 and the maximum to 1 when they
\* differ; when all raw scores of an engine are the same (a single candidate
\* included) every normalized score is 1.0; no candidates normalize to none.
C11_NormalizedScores ==
    /\ MlNormalizeScores(<<>>) = <<>>
    /\ Generated("ml") =>
          /\ NormalizedWell(collab_recs, MlNormalizeScores(collab_recs))
          /\ NormalizedWell(content_recs, MlNormalizeScores(content_recs))
          /\ \A i \in 1..Len(ret.out) :
                /\ ret.out[i].collaborative_score \in 0..SScale
                /\ ret.out[i].content_score \in 0..SScale

\* C11: the content engine gave two candidates the same raw score below 1.0, and
\* the collaborative engine gave its candidates different scores
C11_Witness ==
    /\ Generated("ml")
    /\ Len(content_recs) >= 2
    /\ Cardinality(RawScores(content_recs)) = 1
    /\ RawScores(content_recs) /= {SScale}
    /\ Cardinality(RawScores(collab_recs)) > 1
    /\ ret.out /= <<>>

\* C12: in generate_recommendations (recommender), when the scores of an engine's
\* candidates have zero range every normalized score of that engine is 1.0, and
\* the blended score of every returned book lies in [0, 1].
C12_ZeroRangeIsOne ==
    Generated("recommender") =>
        /\ Cardinality(RawScores(collab_recs)) = 1 =>
               \A i \in 1..Len(collab_recs) :
                   RecNormalizeScores(collab_recs)[i].score = SScale
        /\ Cardinality(RawScores(content_recs)) = 1 =>
               \A i \in 1..Len(content_recs) :
                   RecNormalizeScores(content_recs)[i].score = SScale
        /\ \A i \in 1..Len(ret.out) :
               0 <= ret.out[i].score /\ ret.out[i].score <= WScale * SScale

\* C12: a returned book has a blended score above 1.0
C12_Witness ==
    /\ Generated("recommender")
    /\ \E i \in 1..Len(ret.out) : ret.out[i].score > WScale * SScale

\* C13: generate_recommendations (ml) for a user identifier that has no row in
\* the interaction matrix returns a list and does not raise.
C13_UnknownUserReturnsList ==
    ( /\ call.impl = "ml"
      /\ call.op = "generate_recommendations"
      /\ call.id \notin Range(mlRec.idx_to_user) )
    => ~ret.raised

\* C13: the request for a user that is in no interaction row raised
C13_Witness ==
    /\ call.impl = "ml"
    /\ call.op = "generate_recommendations"
    /\ \A i \in 1..Len(mlRec.interactions) : mlRec.interactions[i].user_id /= call.id
    /\ ret.raised

\* the number of queries of one method among those of the last request
CallCount(method) ==
    Cardinality({i \in 1..Len(engine_calls) : engine_calls[i].method = method})

\* C14: for a user with no rating history generate_recommendations (src/src)
\* invokes content_based.get_similar_books exactly once, and returns
\* n_recommendations results when the engines have that many candidates.
C14_NoHistoryFallsBackToContent ==
    (Generated("src") /\ RatedBy(srcRec.user_ratings, call.id) = {}) =>
        /\ CallCount("get_similar_books") = 1
        /\ Cardinality(Keys(collab_recs) \cup Keys(content_recs)) >= call.n
               => Len(ret.out) = call.n

\* C14: both tables are assigned and the models fitted, the user has no rating,
\* and the request made no query to the content engine and returned nothing
C14_Witness ==
    /\ Generated("src")
    /\ srcRec.cf /= None /\ srcRec.cb /= None
    /\ RatedBy(srcRec.user_ratings, call.id) = {}
    /\ CallCount("get_similar_books") = 0
    /\ CallCount("predict") = 1
    /\ ret.out = <<>>

\* a get_user_recommendations request of the src/src recommender has been answered
UserRecommended ==
    call.impl = "src" /\ call.op = "get_user_recommendations"

\* the positions of predict's items the user has no ratings row for
UnlistenedPositions ==
    {i \in 1..Len(collab_recs) :
        collab_recs[i].book_id \notin RatedBy(srcRec.user_ratings, call.id)}

SimilarBooksAnswered(impl) ==
    call.impl = impl /\ call.op = "get_similar_books" /\ ~ret.raised

\* the ids of a catalogue, and the feature row of one of its books
CatalogueIds(catalogue) == {catalogue[i].book_id : i \in 1..Len(catalogue)}
FeaturesOf(catalogue, book_id) ==
    (CHOOSE row \in Range(catalogue) : row.book_id = book_id).features

\* C16: ContentBasedRecommender.get_similar_books(book_id, n) (ml and
\* src/src/models) never has the anchor book_id in its result.
C16_AnchorNeverReturned ==
    /\ SimilarBooksAnswered("ml") => call.id \notin Range(OutIds)
    /\ \A i \in 1..Len(engine_calls) :
          engine_calls[i].method = "get_similar_books"
              => engine_calls[i].id \notin Keys(content_recs)

\* C16: the catalogue has another book with the anchor's features, and the ml
\* engine's answer holds the anchor
C16_Witness ==
    /\ SimilarBooksAnswered("ml")
    /\ call.id \in Range(OutIds)
    /\ call.id \in CatalogueIds(mlRec.audiobooks)
    /\ \E b \in CatalogueIds(mlRec.audiobooks) \ {call.id} :
          FeaturesOf(mlRec.audiobooks, b) = FeaturesOf(mlRec.audiobooks, call.id)

\* what C17 says of the answer for an anchor of a catalogue
MostSimilarOthers(catalogue, anchor, n, answer) ==
    LET others == CatalogueIds(catalogue) \ {anchor}
        sim(b) == cosine_similarity(FeaturesOf(catalogue, anchor), FeaturesOf(catalogue, b))
    IN /\ Len(answer) = Min(n, Cardinality(others))
       /\ Keys(answer) \subseteq others
       /\ \A k \in 1..Len(answer) :
             \A b \in others \ Keys(answer) : sim(b) <= sim(answer[k].book_id)

\* C17: get_similar_books(book_id, n) returns the min(n, catalogue size - 1) most
\* similar books other than the anchor: no other book that is strictly more
\* similar than a returned one is left out, and a book tied with the anchor is
\* not dropped in its place.  This is said of the ml engine, of the src/src engine
\* and of the src/src HybridRecommender.get_similar_books wrapper.
C17_MostSimilarReturned ==
    /\ (SimilarBooksAnswered("ml") /\ call.id \in CatalogueIds(mlRec.audiobooks)) =>
           MostSimilarOthers(mlRec.audiobooks, call.id, call.n, ret.out)
    /\ ( /\ SimilarBooksAnswered("src")
         /\ srcRec.cb /= None
         /\ call.id \in CatalogueIds(Val(srcRec.cb)) ) =>
           /\ MostSimilarOthers(Val(srcRec.cb), call.id, call.n, content_recs)
           /\ MostSimilarOthers(Val(srcRec.cb), call.id, call.n, ret.out)

\* C17: the wrapper was asked for one book similar to an anchor that has a twin in
\* the catalogue, and returned nothing
C17_Witness ==
    /\ SimilarBooksAnswered("src")
    /\ srcRec.cb /= None
    /\ call.id \in CatalogueIds(Val(srcRec.cb))
    /\ \E b \in CatalogueIds(Val(srcRec.cb)) \ {call.id} :
          FeaturesOf(Val(srcRec.cb), b) = FeaturesOf(Val(srcRec.cb), call.id)
    /\ call.n = 1
    /\ ret.out = <<>>

\* a get_similar_users request has returned a list
SimilarUsersAnswered ==
    call.impl = "ml" /\ call.op = "get_similar_users" /\ ~ret.raised

\* C18: get_similar_users(user, n) returns at most n (user_id, similarity) pairs,
\* in non-increasing order of similarity, and never the queried user.
C18_SimilarUsersExcludeSelf ==
    SimilarUsersAnswered =>
        /\ Len(ret.out) <= call.n
        /\ \A i \in 1..(Len(ret.out) - 1) :
              ret.out[i].similarity >= ret.out[i + 1].similarity
        /\ \A i \in 1..Len(ret.out) : ret.out[i].user_id /= call.id

\* C18: another user has similarity 1.0 with the queried user, and the queried
\* user is in the answer
C18_Witness ==
    /\ SimilarUsersAnswered
    /\ \E i \in 1..Len(ret.out) : ret.out[i].user_id = call.id
    /\ \E u \in Range(mlRec.idx_to_user) \ {call.id} :
          mlRec.user_similarity[IndexOf(mlRec.idx_to_user, call.id)]
                               [IndexOf(mlRec.idx_to_user, u)] = SScale

\* C19: get_similar_books (src/src HybridRecommender) for a book id that is not
\* in the catalogue returns the empty list and does not raise, after one query
\* to the content engine with (book_id, n_recommendations).
C19_UnknownBookReturnsEmpty ==
    ( /\ call.impl = "src"
      /\ call.op = "get_similar_books"
      /\ (srcRec.cb = None \/ call.id \notin CatalogueIds(Val(srcRec.cb))) )
    => /\ ~ret.raised
       /\ ret.out = <<>>
       /\ engine_calls = <<[method |-> "get_similar_books", id |-> call.id, n |-> call.n]>>

\* C19: the content engine is fitted on a catalogue, and the request was for a
\* book id that is not in it
C19_Witness ==
    /\ call.impl = "src"
    /\ call.op = "get_similar_books"
    /\ srcRec.cb /= None
    /\ call.id \notin CatalogueIds(Val(srcRec.cb))
    /\ call.id \notin Books
    /\ ret.out = <<>>

Built == disk.user_item_matrix /= None

\* the rows of the preprocessed table for a user and a book, by position
RowsFor(user_id, book_id) ==
    LET t == Val(disk.user_interactions)
    IN {k \in 1..Len(t) : t[k].user_id = user_id /\ t[k].book_id = book_id}

\* the cell of the built matrix for a user and a book; a pair that has no cell
\* is the implicit zero
Cell(user_id, book_id) ==
    LET m == Val(disk.id_mappings)
    IN IF user_id \in Range(m.idx_to_user) /\ book_id \in Range(m.idx_to_book)
       THEN Val(disk.user_item_matrix)[IndexOf(m.idx_to_user, user_id)]
                                      [IndexOf(m.idx_to_book, book_id)]
       ELSE 0

\* the value of the last row of the table for a user and a book
LastValue(user_id, book_id) ==
    LET last == CHOOSE k \in RowsFor(user_id, book_id) :
                    \A j \in RowsFor(user_id, book_id) : j <= k
    IN InteractionValue(Val(disk.user_interactions)[last])

\* a row whose progress is outside [0,100] or whose rating is outside [1,5]
OutOfRange(row) ==
    \/ row.progress < 0
    \/ row.progress > 100
    \/ row.rating /= None /\ (Val(row.rating) < 1 \/ Val(row.rating) > 5)

\* C21: in the matrix create_user_item_matrix builds, the cell of every (user,
\* book) pair with an interaction is rating * progress/100 when the row has a
\* rating and progress/100 when it has none (the row that counts for a pair with
\* several rows being the last), and the cell of a pair without one is 0.
C21_CellIsWeightedValue ==
    Built =>
        \A u \in Users, b \in Books :
            Cell(u, b) = IF RowsFor(u, b) = {} THEN 0 ELSE LastValue(u, b)

\* C21: a table with a rated row, an unrated row and a pair without a row was built
C21_Witness ==
    /\ Built
    /\ \E u \in Users, b \in Books : RowsFor(u, b) = {}
    /\ \E k, j \in 1..Len(Val(disk.user_interactions)) :
          /\ Val(disk.user_interactions)[k].rating = None
          /\ Val(disk.user_interactions)[j].rating /= None
          /\ Val(disk.user_interactions)[j].progress = 50

\* C22: building the matrix of a table with a row whose progress is outside
\* [0,100] or whose rating is outside [1,5] fails and leaves no matrix and no id
\* mappings; every cell of a matrix that was built is in [0,5].
C22_OutOfRangeFails ==
    /\ (disk.user_interactions /= None
          /\ \E row \in Range(Val(disk.user_interactions)) : OutOfRange(row))
        => disk.user_item_matrix = None /\ disk.id_mappings = None
    /\ Built => \A u \in Users, b \in Books : Cell(u, b) >= 0 /\ Cell(u, b) <= 50

\* C22: a table with a progress of 150 was preprocessed
C22_Witness ==
    /\ disk.user_interactions /= None
    /\ \E row \in Range(Val(disk.user_interactions)) : row.progress > 100

\* C23: when the table has several rows for one (user, book) pair, the cell
\* holds the value of the last of them, not their sum.
C23_LastRowOverwrites ==
    Built =>
        \A u \in Users, b \in Books :
            Cardinality(RowsFor(u, b)) > 1 => Cell(u, b) = LastValue(u, b)

\* C23: a table with two rows of different nonzero value for one pair was built
C23_Witness ==
    /\ Built
    /\ \E u \in Users, b \in Books :
          \E k, j \in RowsFor(u, b) :
             LET t == Val(disk.user_interactions)
             IN /\ k < j
                /\ InteractionValue(t[k]) > 0
                /\ InteractionValue(t[j]) > 0
                /\ InteractionValue(t[k]) /= InteractionValue(t[j])

\* C24: ml ContentBasedRecommender.get_similar_books(book_id) for a book of the
\* item table answers from that book's own feature row, and every book it
\* returns has the score of its own feature row against the anchor's: rows and
\* ids are matched by identifier, whatever the order in which the books first
\* appear in the interaction table and whether or not each has an interaction.
C24_RowsMatchedByIdentifier ==
    ( /\ call.impl = "ml"
      /\ call.op = "get_similar_books"
      /\ call.id \in CatalogueIds(mlRec.audiobooks) )
    => /\ ~ret.raised
       /\ \A i \in 1..Len(ret.out) :
             /\ ret.out[i].book_id \in CatalogueIds(mlRec.audiobooks)
             /\ ret.out[i].score =
                    cosine_similarity(FeaturesOf(mlRec.audiobooks, call.id),
                                      FeaturesOf(mlRec.audiobooks, ret.out[i].book_id))

\* C24: the books appear in the interaction table in another order than in the
\* item table, and a request for the similar books of one of them was answered
C24_Witness ==
    /\ SimilarBooksAnswered("ml")
    /\ call.id \in CatalogueIds(mlRec.audiobooks)
    /\ Len(ret.out) > 0
    /\ Len(mlRec.idx_to_book) = Len(mlRec.audiobooks)
    /\ \E i \in 1..Len(mlRec.idx_to_book) : mlRec.idx_to_book[i] /= mlRec.audiobooks[i].book_id

\* C25: every anchor for which ml generate_recommendations asks the content
\* engine for similar books is a book the user has consumed (a nonzero cell of
\* the user's row); a user with fewer than 3 consumed books has only those as
\* anchors.
C25_AnchorsAreConsumed ==
    (call.impl = "ml" /\ call.op = "generate_recommendations") =>
        \A k \in 1..Len(engine_calls) :
            MatrixValue(mlRec, call.id, engine_calls[k].id) > 0

\* C25: the user has one consumed book and the matrix has more books; the
\* content engine was asked for the similar books of anchors
C25_Witness ==
    /\ Generated("ml")
    /\ Len(engine_calls) > 1
    /\ Cardinality(MlListenedBooks(mlRec, call.id)) = 1

\* the hybrid score of a record of a returned list
ScoreOf(r) == IF call.impl = "ml" THEN r.hybrid_score ELSE r.score

\* C26: of two records of equal hybrid score in a list generate_recommendations
\* returns (src/src, ml and recommender), the one with the smaller book id comes
\* first.
C26_TiesByAscendingId ==
    (call.op = "generate_recommendations" /\ ~ret.raised) =>
        \A i, j \in 1..Len(ret.out) :
            (i < j /\ ScoreOf(ret.out[i]) = ScoreOf(ret.out[j]))
                => ret.out[i].book_id < ret.out[j].book_id

\* C26: a list came back in which two records have the same hybrid score
C26_Witness ==
    /\ call.op = "generate_recommendations"
    /\ ~ret.raised
    /\ \E i \in 1..(Len(ret.out) - 1) : ScoreOf(ret.out[i]) = ScoreOf(ret.out[i + 1])
    /\ call.n = Len(ret.out)

\* a request to the src/src recommender has been answered
SrcAnswered ==
    /\ call.impl = "src"
    /\ call.op \in {"generate_recommendations", "get_user_recommendations",
                     "get_similar_books"}

\* C27: whenever a request to the src/src recommender is answered, each fitted
\* model was fitted on the table that is assigned now: the collaborative model
\* on user_ratings, the content model on books.
C27_FittedOnAssignedTables ==
    SrcAnswered =>
        /\ srcRec.cf /= None =>
               /\ srcRec.user_ratings /= None
               /\ ~PivotRaises(Val(srcRec.user_ratings))
               /\ Val(srcRec.cf) = CollaborativeFilter_fit(Val(srcRec.user_ratings))
        /\ srcRec.cb /= None => srcRec.cb = srcRec.books

\* C27: after three assignments a request was answered by fitted models
C27_Witness ==
    /\ SrcAnswered
    /\ assigns = 3
    /\ srcRec.cf /= None
    /\ srcRec.cb /= None
    /\ ret.out /= <<>>

\* the fit of the last assignment failed: both tables are assigned and the
\* ratings table has two rows for one (user, book) pair
HalfBuilt ==
    /\ srcRec.user_ratings /= None
    /\ srcRec.books /= None
    /\ PivotRaises(Val(srcRec.user_ratings))

\* C28: after an assignment whose fit failed, the src/src recommender answers no
\* request (the newly assigned table being in effect, not the previous one): a
\* request made then is refused.
C28_NotServedHalfBuilt ==
    (SrcAnswered /\ HalfBuilt) => ret.raised

\* C28: the fit of the last assignment failed, the collaborative model is the
\* one fitted on the table assigned before, and a request got a list of books
C28_Witness ==
    /\ SrcAnswered
    /\ HalfBuilt
    /\ srcRec.cf /= None
    /\ ~ret.raised
    /\ ret.out /= <<>>

\* C29: as long as user_ratings and books of the src/src recommender have not
\* held tables at one time, get_user_recommendations, get_similar_books and
\* generate_recommendations return the empty list and do not raise.
C29_UnbuiltAnswersEmpty ==
    (SrcAnswered /\ ~built_once) => (~ret.raised /\ ret.out = <<>>)

\* C29: one of the two tables is assigned, the other never was, and a request
\* was answered
C29_Witness ==
    /\ SrcAnswered
    /\ ~built_once
    /\ srcRec.user_ratings /= None
    /\ call.id \in Users
    /\ ret.out = <<>>

\* the POST /recommendations/ handler has responded
ApiResponded == call.impl = "api"

====
